---- MODULE Spec2Model ----
(***************************************************************************)
(* A model of src/app.py, the interactive PDF page extractor.              *)
(*                                                                         *)
(* Text the user types is a sequence of one-character strings, so that     *)
(* split, strip and int are modelled by what they do to the characters.    *)
(* A PDF document is the sequence of its physical page indices; a written  *)
(* output file is the sequence of physical pages copied into it.           *)
(***************************************************************************)
EXTENDS Integers, Sequences, FiniteSets, TLC

VARIABLES
    pc,               \* position of the program
    path_input,       \* main: the text read at the file-path prompt
    mode,             \* main: the text read at the operation prompt
    page_mode,        \* main: the text read at the page-selection prompt
    page_input,       \* main / parse_page_numbers: the page list typed
    book_pages,       \* main: None or Some(list), the argument of the operation
    op,               \* which operation runs: "extract", "split" or "none"
    req_pages,        \* the operation's local book_pages (rebound at lines 124, 137)
    total_pdf_pages,  \* len(pdf_reader.pages) of the opened document
    choice,           \* get_book_page_mapping: text read at the mapping prompt
    offset_input,     \* get_book_page_mapping: text read at the offset prompt
    page_mapping,     \* the dict returned by get_book_page_mapping
    invalid_pages,    \* the pages reported as invalid
    valid_pdf_indices,\* extract: the physical indices of the valid pages
    loop_i,           \* split: index of the next element of the for loop at line 140
    open_files,       \* the files the process holds open
    writer_pages,     \* the pages added to the current pdf_writer
    out_files,        \* the files written by the running operation: name -> pages
    exc,              \* the exception the operation raised, "none" if none
    result            \* the value the operation returned, "None" while it runs

vars == <<pc, path_input, mode, page_mode, page_input, book_pages, op, req_pages,
          total_pdf_pages, choice, offset_input, page_mapping, invalid_pages,
          valid_pdf_indices, loop_i, open_files, writer_pages, out_files, exc,
          result>>

(***************************************************************************)
(* Bounds of the model.                                                    *)
(***************************************************************************)
MaxTokens == 3      \* comma-separated tokens in a page list (parse specification)
MainMaxTokens == 1  \* comma-separated tokens typed in the main loop
MaxPages == 3       \* pages of a document handed to extract / split
MaxReq == 3         \* length of a page list handed directly to extract / split
MapMaxPages == 6    \* pages of a document in the mapping specification

(***************************************************************************)
(* Python values.                                                          *)
(***************************************************************************)
None == <<>>
Some(v) == <<v>>

Range(s) == {s[i] : i \in 1..Len(s)}

RECURSIVE Sorted(_)
\* sorted(list(S)) for a finite set of integers
Sorted(S) ==
    IF S = {} THEN <<>>
    ELSE LET m == CHOOSE x \in S : \A y \in S : x <= y
         IN <<m>> \o Sorted(S \ {m})

RECURSIVE SortedList(_)
\* sorted(l) for a list of integers: duplicates are kept
SortedList(l) ==
    IF l = <<>> THEN <<>>
    ELSE LET i == CHOOSE k \in 1..Len(l) : \A j \in 1..Len(l) : l[k] <= l[j]
         IN <<l[i]>> \o SortedList(SubSeq(l, 1, i - 1) \o SubSeq(l, i + 1, Len(l)))

RECURSIVE PyRange(_, _)
\* list(range(a, b))
PyRange(a, b) == IF a >= b THEN <<>> ELSE <<a>> \o PyRange(a + 1, b)

(***************************************************************************)
(* Python strings.                                                         *)
(***************************************************************************)
DigitChars == <<"0", "1", "2", "3", "4", "5", "6", "7", "8", "9">>
IsDigit(c) == \E i \in 1..Len(DigitChars) : DigitChars[i] = c
DigitVal(c) == (CHOOSE i \in 1..Len(DigitChars) : DigitChars[i] = c) - 1

RECURSIVE LStrip(_)
LStrip(s) == IF s # <<>> /\ Head(s) = " " THEN LStrip(Tail(s)) ELSE s

RECURSIVE RStrip(_)
RStrip(s) ==
    IF s # <<>> /\ s[Len(s)] = " " THEN RStrip(SubSeq(s, 1, Len(s) - 1)) ELSE s

\* str.strip()
Strip(s) == RStrip(LStrip(s))

\* str.lower() on the letters the model types
Lower(s) == [i \in 1..Len(s) |-> IF s[i] = "Q" THEN "q" ELSE s[i]]

\* sep in s
Contains(s, sep) == \E i \in 1..Len(s) : s[i] = sep

RECURSIVE Split(_, _)
\* s.split(sep): always at least one piece, empty pieces are kept
Split(s, sep) ==
    IF ~Contains(s, sep) THEN <<s>>
    ELSE LET i == CHOOSE k \in 1..Len(s) :
                    s[k] = sep /\ \A j \in 1..(k - 1) : s[j] # sep
         IN <<SubSeq(s, 1, i - 1)>> \o Split(SubSeq(s, i + 1, Len(s)), sep)

\* The digits of an int() literal after the sign: digits, with single
\* underscores allowed between digits.
DigitsOk(d) ==
    /\ d # <<>>
    /\ IsDigit(d[1]) /\ IsDigit(d[Len(d)])
    /\ \A i \in 1..Len(d) : IsDigit(d[i]) \/ d[i] = "_"
    /\ \A i \in 1..(Len(d) - 1) : ~(d[i] = "_" /\ d[i + 1] = "_")

RECURSIVE DigitsVal(_, _)
DigitsVal(d, acc) ==
    IF d = <<>> THEN acc
    ELSE IF Head(d) = "_" THEN DigitsVal(Tail(d), acc)
    ELSE DigitsVal(Tail(d), 10 * acc + DigitVal(Head(d)))

HasSign(t) == t # <<>> /\ (t[1] = "+" \/ t[1] = "-")

\* int(s) succeeds (no ValueError): surrounding whitespace, an optional sign, digits
IntOk(s) ==
    LET t == Strip(s)
    IN DigitsOk(IF HasSign(t) THEN Tail(t) ELSE t)

\* int(s) when it succeeds
IntVal(s) ==
    LET t == Strip(s)
        v == DigitsVal(IF HasSign(t) THEN Tail(t) ELSE t, 0)
    IN IF t # <<>> /\ t[1] = "-" THEN 0 - v ELSE v

(***************************************************************************)
(* parse_page_numbers (lines 160-181).                                     *)
(***************************************************************************)
\* A variant of parse_part whose ranges leave out their last page.
parse_part_open_range(part0) ==
    LET part == Strip(part0)
    IN IF Contains(part, "-")
       THEN LET pieces == Split(part, "-")
            IN IF Len(pieces) = 2 /\ IntOk(pieces[1]) /\ IntOk(pieces[2])
               THEN PyRange(IntVal(pieces[1]), IntVal(pieces[2]))
               ELSE <<>>
       ELSE IF IntOk(part) THEN <<IntVal(part)>> ELSE <<>>

\* One iteration of the for loop at line 164: what the token appends to pages.
\* A ValueError (unpacking other than two pieces, or int failing) and a range
\* with start > end only print a warning.
parse_part(part0) ==
    LET part == Strip(part0)
    IN IF Contains(part, "-")
       THEN LET pieces == Split(part, "-")
            IN IF Len(pieces) = 2 /\ IntOk(pieces[1]) /\ IntOk(pieces[2])
               THEN LET start == IntVal(pieces[1])
                        end == IntVal(pieces[2])
                    IN IF start <= end THEN PyRange(start, end + 1) ELSE <<>>
               ELSE <<>>
       ELSE IF IntOk(part) THEN <<IntVal(part)>> ELSE <<>>

RECURSIVE parse_loop(_, _)
\* The for loop at line 164 over the pieces of page_input.split(',').
parse_loop(parts, pages) ==
    IF parts = <<>> THEN pages
    ELSE parse_loop(Tail(parts), pages \o parse_part(Head(parts)))

parse_page_numbers(input) == Sorted(Range(parse_loop(Split(input, ","), <<>>)))

(***************************************************************************)
(* get_book_page_mapping (lines 5-47).                                     *)
(***************************************************************************)
\* {i+1: i for i in range(total)} (lines 22, 30, 38, 43, 47)
identity_mapping(total) == [i \in 1..total |-> i - 1]

\* A variant of offset_rejected that accepts every offset.
offset_never_rejected(offset, total) == FALSE

\* The test at line 28.
offset_rejected(offset, total) == offset < 0 \/ offset >= total

\* A variant of offset_mapping that forgets to add the offset.
offset_mapping_no_shift(total, offset) == [i \in 1..(total - offset) |-> i - 1]

\* The loop at lines 32-35: mapping[i + 1] = i + offset for i in range(total - offset)
offset_mapping(total, offset) == [i \in 1..(total - offset) |-> (i - 1) + offset]

\* A variant of fallback_mapping that gives up with an empty mapping.
fallback_empty(total) == [i \in {} |-> 0]

\* What every branch other than an accepted offset returns (lines 30, 38, 43, 47).
fallback_mapping(total) == identity_mapping(total)

\* The mapping returned for the text typed at the mapping prompt (stripped at
\* line 18) and, under option 2, the text typed at the offset prompt.
get_book_page_mapping(total, choice_text, offset_text) ==
    LET c == Strip(choice_text)
    IN IF c = <<"1">> THEN identity_mapping(total)
       ELSE IF c = <<"2">>
       THEN IF ~IntOk(offset_text) THEN fallback_mapping(total)
            ELSE LET offset == IntVal(offset_text) - 1
                 IN IF offset_rejected(offset, total) THEN fallback_mapping(total)
                    ELSE offset_mapping(total, offset)
       ELSE fallback_mapping(total)

(***************************************************************************)
(* What the user can type, and what the file system can do.                *)
(***************************************************************************)
RECURSIVE Join(_)
\* ",".join(tokens)
Join(tokens) ==
    IF tokens = <<>> THEN <<>>
    ELSE IF Len(tokens) = 1 THEN tokens[1]
    ELSE tokens[1] \o <<",">> \o Join(Tail(tokens))

\* The tokens page lists are built from: pages, ranges, an inverted range,
\* and malformed tokens.
Tokens ==
    { <<"1">>, <<"3">>, <<"0">>, <<"5", "-", "7">>, <<"3", "-", "1">>,
      <<"2", "-", "2">>, <<" ", "2", " ", "-", "3">>, <<"x">>, <<>>,
      <<"-", "3">>, <<"1", "-", "2", "-", "3">>, <<"+", "1", "0">> }

TokenLists(n) == UNION {[1..k -> Tokens] : k \in 0..n}

\* The page lists typed, up to n tokens long.
PageInputs(n) == {Join(ts) : ts \in TokenLists(n)}

\* The text typed at the file-path prompt; only "a" names an existing file.
PathInputs == { <<"q">>, <<"Q">>, <<" ", "q", " ">>, <<"a">>, <<"b">>, <<"q", "q">>, <<>> }

\* os.path.isfile (line 194)
IsFile(path) == path = <<"a">>

\* The text typed at the two "Choose an option (1 or 2)" prompts.
OptionInputs == { <<"1">>, <<"2">>, <<" ", "2">>, <<"3">>, <<>> }

\* The text typed at the mapping prompt.
ChoiceInputs == { <<"1">>, <<"2">>, <<"2", " ">>, <<"3">>, <<"4">>, <<>> }

\* The decimal text of a small number.
NumberText(n) == IF n < 10 THEN <<DigitChars[n + 1]>>
                 ELSE <<DigitChars[(n \div 10) + 1], DigitChars[(n % 10) + 1]>>

\* The text typed at the offset prompt for a document of at most n pages.
OffsetInputs(n) ==
    {NumberText(k) : k \in 0..(n + 1)}
        \cup { <<"x">>, <<>>, <<"-", "1">>, <<" ", "2", " ">>, <<"+", "1">>,
               <<"0", "3">>, <<"1", "_", "0">> }

\* The page lists handed directly to extract / split, in any order. A page
\* list has no duplicates: parse_page_numbers removes them at line 181.
ArgLists ==
    {l \in UNION {[1..k -> 0..(MaxPages + 1)] : k \in 0..MaxReq} :
        \A i, j \in 1..Len(l) : i # j => l[i] # l[j]}

InFile == <<"in", 0>>
OutFile(name) == <<"out", name>>

EmptyMap == [n \in {} |-> 0]
EmptyFiles == [n \in {} |-> <<>>]

\* The operation's locals before it runs.
OpIdle ==
    /\ op = "none" /\ req_pages = None /\ total_pdf_pages = 0
    /\ choice = <<>> /\ offset_input = <<>> /\ page_mapping = EmptyMap
    /\ invalid_pages = <<>> /\ valid_pdf_indices = <<>> /\ loop_i = 0
    /\ open_files = {} /\ writer_pages = <<>> /\ out_files = EmptyFiles
    /\ exc = "none" /\ result = "None"

\* main's locals before a prompt is answered.
MainIdle ==
    /\ path_input = <<>> /\ mode = <<>> /\ page_mode = <<>>
    /\ page_input = <<>> /\ book_pages = None

opvars == <<op, req_pages, total_pdf_pages, choice, offset_input, page_mapping,
            invalid_pages, valid_pdf_indices, loop_i, open_files, writer_pages,
            out_files, exc, result>>
mainvars == <<path_input, mode, page_mode, page_input, book_pages>>

(***************************************************************************)
(* Leaving an operation: the with blocks (lines 59, 91, 117, 146) close    *)
(* the files, the except clauses (lines 97-102, 153-158) turn an exception *)
(* into the return value False.                                            *)
(***************************************************************************)
\* A variant of released_on_exit for files opened without a with block.
released_never(files) == files

\* The files still open once every with block of the operation has been left.
released_on_exit(files) == {}

\* A variant of handler_catches with the FileNotFoundError clause only.
handler_catches_not_found_only(kind) == kind = "FileNotFoundError"

\* except FileNotFoundError / except Exception (lines 97-102, 153-158)
handler_catches(kind) == kind \in {"FileNotFoundError", "OSError", "PdfReadError", "IndexError"}

Raise(kind) ==
    /\ exc' = kind
    /\ open_files' = released_on_exit(open_files)
    /\ result' = IF handler_catches(kind) THEN "False" ELSE "raised"
    /\ pc' = "op_return"

Return(value) ==
    /\ open_files' = released_on_exit(open_files)
    /\ result' = value
    /\ pc' = "op_return"
    /\ UNCHANGED exc

\* pdf_reader.pages[index] (lines 86, 143): a negative index counts from the
\* end, an index outside the document raises IndexError.
PageAt(index, total) ==
    IF index >= 0 /\ index < total THEN index
    ELSE IF index < 0 /\ index + total >= 0 THEN index + total
    ELSE -1

PageReadable(index, total) == PageAt(index, total) # -1

\* open(input_path, 'rb') (lines 59, 117)
OpenInput(from, to) ==
    /\ pc = from
    /\ \/ /\ open_files' = open_files \cup {InFile}
          /\ pc' = to
          /\ UNCHANGED <<exc, result>>
       \/ Raise("FileNotFoundError")
       \/ Raise("OSError")
    /\ UNCHANGED <<mainvars, op, req_pages, total_pdf_pages, choice, offset_input,
                   page_mapping, invalid_pages, valid_pdf_indices, loop_i,
                   writer_pages, out_files>>

\* PyPDF2.PdfReader(file) (lines 60, 118) and len(pdf_reader.pages) (line 10)
ReadDocument(from, to) ==
    /\ pc = from
    /\ \/ /\ \E n \in 0..MaxPages : total_pdf_pages' = n
          /\ pc' = to
          /\ UNCHANGED <<exc, result, open_files>>
       \/ Raise("PdfReadError") /\ UNCHANGED total_pdf_pages
    /\ UNCHANGED <<mainvars, op, req_pages, choice, offset_input, page_mapping,
                   invalid_pages, valid_pdf_indices, loop_i, writer_pages, out_files>>

\* The call of get_book_page_mapping (lines 63, 121) with the answers typed at
\* its prompts; the offset prompt appears under option 2 only.
AskMapping(from, to) ==
    /\ pc = from
    /\ \E c \in ChoiceInputs, o \in OffsetInputs(total_pdf_pages) :
          /\ choice' = Strip(c)
          /\ offset_input' = IF Strip(c) = <<"2">> THEN o ELSE <<>>
          /\ page_mapping' = get_book_page_mapping(total_pdf_pages, c, o)
    /\ pc' = to
    /\ UNCHANGED <<mainvars, op, req_pages, total_pdf_pages, invalid_pages,
                   valid_pdf_indices, loop_i, open_files, writer_pages, out_files,
                   exc, result>>

\* [p for p in pages if p not in page_mapping] (lines 69-71, 128-130)
InvalidOf(pages, mapping) == SelectSeq(pages, LAMBDA p : p \notin DOMAIN mapping)

\* [p for p in pages if p in page_mapping] (line 134)
ValidOf(pages, mapping) == SelectSeq(pages, LAMBDA p : p \in DOMAIN mapping)

(***************************************************************************)
(* extract_pages_to_single_pdf (lines 49-102).                             *)
(***************************************************************************)
ExtractOpen == OpenInput("extract_open", "extract_read")

ExtractRead == ReadDocument("extract_read", "extract_mapping")

ExtractMapping == AskMapping("extract_mapping", "extract_validate")

\* Lines 65-79.
ExtractValidate ==
    /\ pc = "extract_validate"
    /\ LET pages == req_pages[1]
           valid == ValidOf(pages, page_mapping)
           invalid == InvalidOf(pages, page_mapping)
       IN /\ invalid_pages' = invalid
          /\ valid_pdf_indices' = [i \in 1..Len(valid) |-> page_mapping[valid[i]]]
          /\ IF invalid # <<>> /\ valid = <<>>
             THEN Return("False")
             ELSE pc' = "extract_build" /\ UNCHANGED <<exc, result, open_files>>
    /\ UNCHANGED <<mainvars, op, req_pages, total_pdf_pages, choice, offset_input,
                   page_mapping, loop_i, writer_pages, out_files>>

\* A variant of extract_order that keeps the requested order.
extract_order_as_requested(indices) == indices

\* sorted(valid_pdf_indices) (line 85)
extract_order(indices) == SortedList(indices)

\* Lines 82-88: the pages are added to the writer in the order of line 85.
ExtractBuild ==
    /\ pc = "extract_build"
    /\ LET order == extract_order(valid_pdf_indices)
       IN IF \A i \in 1..Len(order) : PageReadable(order[i], total_pdf_pages)
          THEN /\ writer_pages' = [i \in 1..Len(order) |->
                                      PageAt(order[i], total_pdf_pages)]
               /\ pc' = "extract_open_out"
               /\ UNCHANGED <<exc, result, open_files>>
          ELSE Raise("IndexError") /\ UNCHANGED writer_pages
    /\ UNCHANGED <<mainvars, op, req_pages, total_pdf_pages, choice, offset_input,
                   page_mapping, invalid_pages, valid_pdf_indices, loop_i, out_files>>

\* open(output_path, 'wb') (line 91): the file is created or truncated.
ExtractOpenOut ==
    /\ pc = "extract_open_out"
    /\ \/ /\ open_files' = open_files \cup {OutFile(0)}
          /\ out_files' = (0 :> <<>>) @@ out_files
          /\ pc' = "extract_write"
          /\ UNCHANGED <<exc, result>>
       \/ Raise("OSError") /\ UNCHANGED out_files
    /\ UNCHANGED <<mainvars, op, req_pages, total_pdf_pages, choice, offset_input,
                   page_mapping, invalid_pages, valid_pdf_indices, loop_i,
                   writer_pages>>

\* pdf_writer.write(output_file) and the return (lines 92-95).
ExtractWrite ==
    /\ pc = "extract_write"
    /\ \/ /\ out_files' = (0 :> writer_pages) @@ out_files
          /\ Return("True")
       \/ Raise("OSError") /\ UNCHANGED out_files
    /\ UNCHANGED <<mainvars, op, req_pages, total_pdf_pages, choice, offset_input,
                   page_mapping, invalid_pages, valid_pdf_indices, loop_i,
                   writer_pages>>

(***************************************************************************)
(* split_pdf_individual_pages (lines 104-158).                             *)
(***************************************************************************)
\* Path(output_dir).mkdir(parents=True, exist_ok=True) (line 114)
SplitMkdir ==
    /\ pc = "split_mkdir"
    /\ \/ pc' = "split_open" /\ UNCHANGED <<exc, result, open_files>>
       \/ Raise("OSError")
    /\ UNCHANGED <<mainvars, op, req_pages, total_pdf_pages, choice, offset_input,
                   page_mapping, invalid_pages, valid_pdf_indices, loop_i,
                   writer_pages, out_files>>

SplitOpen == OpenInput("split_open", "split_read")

SplitRead == ReadDocument("split_read", "split_mapping")

SplitMapping == AskMapping("split_mapping", "split_validate")

\* list(page_mapping.keys()) (line 124): the keys in insertion order
MappingKeys(mapping) == Sorted(DOMAIN mapping)

\* Lines 123-137.
SplitValidate ==
    /\ pc = "split_validate"
    /\ LET pages == IF req_pages = None THEN MappingKeys(page_mapping)
                    ELSE req_pages[1]
           invalid == InvalidOf(pages, page_mapping)
           valid_pages == ValidOf(pages, page_mapping)
       IN /\ invalid_pages' = invalid
          /\ IF invalid # <<>> /\ valid_pages = <<>>
             THEN /\ Return("False")
                  /\ req_pages' = Some(pages)
                  /\ UNCHANGED loop_i
             ELSE /\ req_pages' = Some(IF invalid # <<>> THEN valid_pages ELSE pages)
                  /\ loop_i' = 1
                  /\ pc' = "split_loop"
                  /\ UNCHANGED <<exc, result, open_files>>
    /\ UNCHANGED <<mainvars, op, total_pdf_pages, choice, offset_input,
                   page_mapping, valid_pdf_indices, writer_pages, out_files>>

\* A variant of output_name that numbers the file by its PDF page.
output_name_by_pdf_page(book_page, pdf_index) == pdf_index + 1

\* f'book_page_{book_page}.pdf' (line 145): the number in the file's name
output_name(book_page, pdf_index) == book_page

\* One round of the loop at line 140 up to the open of line 146, or the end
\* of the loop and the return of line 151.
SplitLoop ==
    /\ pc = "split_loop"
    /\ IF loop_i > Len(req_pages[1])
       THEN Return("True") /\ UNCHANGED <<writer_pages, out_files>>
       ELSE LET book_page == req_pages[1][loop_i]
                pdf_index == page_mapping[book_page]
                name == output_name(book_page, pdf_index)
            IN IF ~PageReadable(pdf_index, total_pdf_pages)
               THEN Raise("IndexError") /\ UNCHANGED <<writer_pages, out_files>>
               ELSE \/ /\ writer_pages' = <<PageAt(pdf_index, total_pdf_pages)>>
                       /\ open_files' = open_files \cup {OutFile(name)}
                       /\ out_files' = (name :> <<>>) @@ out_files
                       /\ pc' = "split_write"
                       /\ UNCHANGED <<exc, result>>
                    \/ Raise("OSError") /\ UNCHANGED <<writer_pages, out_files>>
    /\ UNCHANGED <<mainvars, op, req_pages, total_pdf_pages, choice, offset_input,
                   page_mapping, invalid_pages, valid_pdf_indices, loop_i>>

\* pdf_writer.write(output_file) and the end of the with block (lines 146-148).
SplitWrite ==
    /\ pc = "split_write"
    /\ LET book_page == req_pages[1][loop_i]
           name == output_name(book_page, page_mapping[book_page])
       IN \/ /\ out_files' = (name :> writer_pages) @@ out_files
             /\ open_files' = open_files \ {OutFile(name)}
             /\ loop_i' = loop_i + 1
             /\ pc' = "split_loop"
             /\ UNCHANGED <<exc, result>>
          \/ Raise("OSError") /\ UNCHANGED <<out_files, loop_i>>
    /\ UNCHANGED <<mainvars, op, req_pages, total_pdf_pages, choice, offset_input,
                   page_mapping, invalid_pages, valid_pdf_indices, writer_pages>>

(***************************************************************************)
(* The operations called directly, with any page list.                     *)
(***************************************************************************)
InitOps ==
    /\ path_input = <<>> /\ mode = <<>> /\ page_mode = <<>> /\ page_input = <<>>
    /\ op \in {"extract", "split"}
    /\ book_pages \in {Some(l) : l \in ArgLists} \cup (IF op = "split" THEN {None} ELSE {})
    /\ req_pages = book_pages
    /\ total_pdf_pages = 0
    /\ choice = <<>> /\ offset_input = <<>> /\ page_mapping = EmptyMap
    /\ invalid_pages = <<>> /\ valid_pdf_indices = <<>> /\ loop_i = 0
    /\ open_files = {} /\ writer_pages = <<>> /\ out_files = EmptyFiles
    /\ exc = "none" /\ result = "None"
    /\ pc = IF op = "extract" THEN "extract_open" ELSE "split_mkdir"

NextOps ==
    \/ ExtractOpen \/ ExtractRead \/ ExtractMapping \/ ExtractValidate
    \/ ExtractBuild \/ ExtractOpenOut \/ ExtractWrite
    \/ SplitMkdir \/ SplitOpen \/ SplitRead \/ SplitMapping \/ SplitValidate
    \/ SplitLoop \/ SplitWrite

SpecOps == InitOps /\ [][NextOps]_vars

(***************************************************************************)
(* parse_page_numbers called on its own.                                   *)
(***************************************************************************)
InitParse ==
    /\ pc = "parse_call"
    /\ page_input \in PageInputs(MaxTokens)
    /\ path_input = <<>> /\ mode = <<>> /\ page_mode = <<>> /\ book_pages = None
    /\ OpIdle

\* book_pages = parse_page_numbers(page_input) (line 217)
ParseCall ==
    /\ pc = "parse_call"
    /\ book_pages' = Some(parse_page_numbers(page_input))
    /\ pc' = "parse_return"
    /\ UNCHANGED <<path_input, mode, page_mode, page_input, opvars>>

NextParse == ParseCall

SpecParse == InitParse /\ [][NextParse]_vars

(***************************************************************************)
(* get_book_page_mapping called on its own, on documents of any size.      *)
(***************************************************************************)
InitMapping ==
    /\ pc = "map_call"
    /\ MainIdle
    /\ op = "none" /\ req_pages = None
    /\ total_pdf_pages \in 0..MapMaxPages
    /\ choice = <<>> /\ offset_input = <<>> /\ page_mapping = EmptyMap
    /\ invalid_pages = <<>> /\ valid_pdf_indices = <<>> /\ loop_i = 0
    /\ open_files = {} /\ writer_pages = <<>> /\ out_files = EmptyFiles
    /\ exc = "none" /\ result = "None"

MappingCall == AskMapping("map_call", "map_return")

NextMapping == MappingCall

SpecMapping == InitMapping /\ [][NextMapping]_vars

(***************************************************************************)
(* main (lines 183-245).                                                   *)
(***************************************************************************)
Init ==
    /\ pc = "prompt_path"
    /\ MainIdle
    /\ OpIdle

\* Back to the top of the while loop (continue, or the end of its body); the
\* locals of the finished round are dead and are forgotten.
NextRound ==
    /\ pc' = "prompt_path"
    /\ mode' = <<>> /\ page_mode' = <<>> /\ page_input' = <<>> /\ book_pages' = None

\* Lines 189-196.
PromptPath ==
    /\ pc = "prompt_path"
    /\ \E typed \in PathInputs :
          /\ path_input' = Strip(typed)
          /\ IF Lower(Strip(typed)) = <<"q">>
             THEN pc' = "exited" /\ UNCHANGED <<mode, page_mode, page_input, book_pages>>
             ELSE IF ~IsFile(Strip(typed))
             THEN NextRound
             ELSE pc' = "prompt_mode"
                  /\ UNCHANGED <<mode, page_mode, page_input, book_pages>>
    /\ UNCHANGED opvars

\* Lines 202-206.
PromptMode ==
    /\ pc = "prompt_mode"
    /\ \E typed \in OptionInputs :
          IF Strip(typed) \notin { <<"1">>, <<"2">> }
          THEN NextRound
          ELSE /\ mode' = Strip(typed)
               /\ pc' = "prompt_page_mode"
               /\ UNCHANGED <<page_mode, page_input, book_pages>>
    /\ UNCHANGED <<path_input, opvars>>

\* Lines 212-215.
PromptPageMode ==
    /\ pc = "prompt_page_mode"
    /\ \E typed \in OptionInputs :
          /\ page_mode' = Strip(typed)
          /\ pc' = IF Strip(typed) = <<"2">> THEN "prompt_pages" ELSE "prompt_output"
    /\ book_pages' = None
    /\ UNCHANGED <<path_input, mode, page_input, opvars>>

\* Lines 216-221.
PromptPages ==
    /\ pc = "prompt_pages"
    /\ \E typed \in PageInputs(MainMaxTokens) :
          LET pages == parse_page_numbers(Strip(typed))
          IN IF pages = <<>>
             THEN NextRound
             ELSE /\ page_input' = Strip(typed)
                  /\ book_pages' = Some(pages)
                  /\ pc' = "prompt_output"
                  /\ UNCHANGED <<mode, page_mode>>
    /\ UNCHANGED <<path_input, opvars>>

\* Lines 224-245: the output prompt, then the call of the operation, or the
\* refusal of line 242.
PromptOutput ==
    /\ pc = "prompt_output"
    /\ IF mode = <<"1">>
       THEN /\ op' = "split"
            /\ req_pages' = book_pages
            /\ pc' = "split_mkdir"
            /\ UNCHANGED mainvars
       ELSE IF book_pages = None
       THEN NextRound /\ UNCHANGED <<path_input, op, req_pages>>
       ELSE /\ op' = "extract"
            /\ req_pages' = book_pages
            /\ pc' = "extract_open"
            /\ UNCHANGED mainvars
    /\ UNCHANGED <<total_pdf_pages, choice, offset_input, page_mapping,
                   invalid_pages, valid_pdf_indices, loop_i, open_files,
                   writer_pages, out_files, exc, result>>

\* The operation has returned (lines 231, 245): its value is discarded and the
\* loop goes round; an exception it let through would end main.
AfterOperation ==
    /\ pc = "op_return"
    /\ IF result = "raised"
       THEN pc' = "crashed" /\ UNCHANGED <<mainvars, opvars>>
       ELSE /\ NextRound
            /\ op' = "none" /\ req_pages' = None /\ total_pdf_pages' = 0
            /\ choice' = <<>> /\ offset_input' = <<>> /\ page_mapping' = EmptyMap
            /\ invalid_pages' = <<>> /\ valid_pdf_indices' = <<>> /\ loop_i' = 0
            /\ writer_pages' = <<>> /\ out_files' = EmptyFiles
            /\ exc' = "none" /\ result' = "None"
            /\ UNCHANGED <<path_input, open_files>>

Next ==
    \/ PromptPath \/ PromptMode \/ PromptPageMode \/ PromptPages \/ PromptOutput
    \/ AfterOperation \/ NextOps

Spec == Init /\ [][Next]_vars

\* The program runs on: a step that can be taken is taken (the user answers
\* every prompt, every call returns).
FairSpec == Spec /\ WF_vars(Next)

(***************************************************************************)
(* The properties.                                                         *)
(***************************************************************************)
Ascending(l) == \A i, j \in 1..Len(l) : i < j => l[i] < l[j]

\* The tokens of a page list: its maximal comma-free pieces, by position
\* (from i to j; an empty token has j = i - 1).
TokenSpans(s) ==
    {sp \in (1..(Len(s) + 1)) \X (0..Len(s)) :
        /\ sp[2] >= sp[1] - 1
        /\ (sp[1] = 1 \/ s[sp[1] - 1] = ",")
        /\ (sp[2] = Len(s) \/ s[sp[2] + 1] = ",")
        /\ \A k \in sp[1]..sp[2] : s[k] # ","}

\* The integers a token contributes: a single integer, or every integer of a
\* range A-B with A <= B; a hyphen always separates the two ends of a range.
Contribution(token) ==
    LET u == Strip(token)
        hyphens == {k \in 1..Len(u) : u[k] = "-"}
    IN IF hyphens = {}
       THEN IF IntOk(u) THEN {IntVal(u)} ELSE {}
       ELSE IF Cardinality(hyphens) = 1
       THEN LET k == CHOOSE h \in hyphens : TRUE
                A == SubSeq(u, 1, k - 1)
                B == SubSeq(u, k + 1, Len(u))
            IN IF IntOk(A) /\ IntOk(B) /\ IntVal(A) <= IntVal(B)
               THEN IntVal(A)..IntVal(B) ELSE {}
       ELSE {}

Contributed(s) ==
    UNION {Contribution(SubSeq(s, sp[1], sp[2])) : sp \in TokenSpans(s)}

\* C1: parse_page_numbers returns the ascending duplicate-free list of exactly
\* the integers its well-formed tokens contribute; malformed tokens and ranges
\* with start > end contribute nothing and do not stop the parse ("1,3,5-7"
\* gives [1,3,5,6,7], "3-1" gives [], "1,x,3" gives [1,3]).
C1_ParseAccumulates ==
    pc = "parse_return" =>
        LET r == book_pages[1]
        IN /\ Ascending(r)
           /\ Range(r) = Contributed(page_input)
           /\ (page_input = <<"1", ",", "3", ",", "5", "-", "7">> => r = <<1, 3, 5, 6, 7>>)
           /\ (page_input = <<"3", "-", "1">> => r = <<>>)
           /\ (page_input = <<"1", ",", "x", ",", "3">> => r = <<1, 3>>)

\* A malformed token and an inverted range stand before a page that is still parsed.
C1_Witness ==
    /\ pc = "parse_return"
    /\ page_input = <<"x", ",", "3", "-", "1", ",", "5", "-", "7">>
    /\ book_pages = Some(<<5, 6, 7>>)

\* The requested pages that are keys of the mapping.
ValidRequested == {n \in Range(book_pages[1]) : n \in DOMAIN page_mapping}

\* C2: extract_pages_to_single_pdf, for a requested list in any order, writes
\* one document holding exactly the physical pages mapping[N] of the requested
\* N that are keys of the mapping, in strictly ascending physical index; the
\* other requested pages are reported and left out, and when at least one
\* requested page is valid (and no file operation fails) it returns True.
C2_ExtractSortedValid ==
    (pc = "op_return" /\ op = "extract") =>
        /\ result = "True" =>
              /\ DOMAIN out_files = {0}
              /\ Ascending(out_files[0])
              /\ Range(out_files[0]) = {page_mapping[n] : n \in ValidRequested}
              /\ Len(out_files[0]) = Cardinality(ValidRequested)
              /\ invalid_pages = InvalidOf(book_pages[1], page_mapping)
        /\ (exc = "none" /\ ValidRequested # {}) => result = "True"
        /\ (exc = "none" /\ result = "False") =>
              /\ out_files = EmptyFiles
              /\ Range(invalid_pages) = Range(book_pages[1])

\* Pages requested out of order, one of them beyond the document.
C2_Witness ==
    /\ pc = "op_return" /\ op = "extract" /\ result = "True"
    /\ book_pages = Some(<<3, 4, 1>>)
    /\ total_pdf_pages = 3
    /\ choice = <<"1">>
    /\ invalid_pages = <<4>>
    /\ out_files[0] = <<0, 2>>

\* C3: split_pdf_individual_pages with a page selection writes exactly one
\* file per requested book page N that is a key of the mapping, named by N
\* and holding the single physical page mapping[N]; the other requested pages
\* are reported and get no file, and when no requested page is a key of the
\* mapping nothing is written and False is returned.
C3_SplitSelection ==
    (op = "split" /\ book_pages # None) =>
        /\ DOMAIN out_files \subseteq ValidRequested
        /\ (pc = "op_return" /\ result = "True") =>
              /\ DOMAIN out_files = ValidRequested
              /\ \A n \in ValidRequested : out_files[n] = <<page_mapping[n]>>
              /\ invalid_pages = InvalidOf(book_pages[1], page_mapping)
        /\ (pc = "op_return" /\ exc = "none"
                /\ book_pages[1] # <<>> /\ ValidRequested = {}) =>
              /\ result = "False"
              /\ out_files = EmptyFiles
              /\ Range(invalid_pages) = Range(book_pages[1])

\* A selection with an invalid page, split under an offset mapping.
C3_Witness ==
    /\ pc = "op_return" /\ op = "split" /\ result = "True"
    /\ book_pages = Some(<<2, 1, 3>>)
    /\ total_pdf_pages = 3
    /\ choice = <<"2">> /\ offset_input = <<"2">>
    /\ invalid_pages = <<3>>
    /\ DOMAIN out_files = {1, 2}
    /\ out_files[1] = <<1>> /\ out_files[2] = <<2>>

\* C4: splitting a document of N pages with no page selection produces exactly
\* N single-page files named by page number, one for every physical page, for
\* every mapping option.
C4_SplitAllPages ==
    (pc = "op_return" /\ op = "split" /\ book_pages = None /\ result = "True") =>
        /\ DOMAIN out_files = 1..total_pdf_pages
        /\ \A p \in 0..(total_pdf_pages - 1) :
              \E n \in DOMAIN out_files : out_files[n] = <<p>>

\* The PDF page number typed at the offset prompt is out of range or no integer.
OffsetRefused ==
    \/ ~IntOk(offset_input)
    \/ IntVal(offset_input) < 1
    \/ IntVal(offset_input) > total_pdf_pages

\* C5: get_book_page_mapping returns the identity mapping (N -> N-1 for N in
\* 1..total_pages, no other key) under option 1, under option 2 with an offset
\* out of range or not an integer, under option 3 and under any other choice.
C5_IdentityFallback ==
    (/\ pc = "map_return"
     /\ \/ choice = <<"1">>
        \/ choice = <<"2">> /\ OffsetRefused
        \/ choice = <<"3">>
        \/ choice \notin { <<"1">>, <<"2">>, <<"3">> }) =>
        /\ DOMAIN page_mapping = 1..total_pdf_pages
        /\ \A n \in 1..total_pdf_pages : page_mapping[n] = n - 1

\* Option 2 with an offset beyond the document falls back to the identity.
C5_Witness ==
    /\ pc = "map_return"
    /\ choice = <<"2">> /\ offset_input = <<"5">>
    /\ total_pdf_pages = 4
    /\ page_mapping = <<0, 1, 2, 3>>

\* C6: for an accepted offset k (0 <= k < total_pages) the mapping has exactly
\* the keys 1..total_pages-k and maps book page i to physical index i-1+k;
\* with offset 4, book page 1 maps to physical index 4.
C6_OffsetMapping ==
    (pc = "map_return" /\ choice = <<"2">> /\ ~OffsetRefused) =>
        LET k == IntVal(offset_input) - 1
        IN /\ DOMAIN page_mapping = 1..(total_pdf_pages - k)
           /\ \A i \in 1..(total_pdf_pages - k) : page_mapping[i] = i - 1 + k
           /\ (k = 4 => page_mapping[1] = 4)

\* Book page 1 starts at PDF page 5 of a 6-page document: offset 4.
C6_Witness ==
    /\ pc = "map_return"
    /\ choice = <<"2">> /\ offset_input = <<"5">>
    /\ total_pdf_pages = 6
    /\ page_mapping = <<4, 5>>

\* C7: every value of the mapping lies within [0, total_pages-1], so every
\* physical index extract and split use to read a page is an index of the
\* document: no read raises IndexError and every page written is a page of it.
C7_IndicesInDocument ==
    /\ \A n \in DOMAIN page_mapping :
          page_mapping[n] >= 0 /\ page_mapping[n] <= total_pdf_pages - 1
    /\ \A i \in 1..Len(valid_pdf_indices) :
          valid_pdf_indices[i] \in 0..(total_pdf_pages - 1)
    /\ exc # "IndexError"

\* An operation has read pages through an offset mapping.
C7_Witness ==
    /\ pc = "op_return" /\ result = "True"
    /\ choice = <<"2">> /\ offset_input = <<"3">>
    /\ total_pdf_pages = 3
    /\ page_mapping = <<2>>
    /\ DOMAIN out_files # {}

\* C8: the loop of main is left only by 'q' or 'Q' at the file-path prompt;
\* after every other input, every refusal and every operation, failed or not,
\* control comes back to the file-path prompt, and main never ends on an
\* exception.
C8_LoopGoesOn ==
    /\ [](pc # "crashed")
    /\ [][pc' = "exited" => (pc = "prompt_path" /\ Lower(path_input') = <<"q">>)]_vars
    /\ [](pc \notin {"prompt_path", "exited"} => <>(pc = "prompt_path"))

\* An operation called from main has failed on a file error.
C8_Witness ==
    /\ pc = "op_return" /\ result = "False" /\ exc = "OSError"
    /\ path_input = <<"a">>
    /\ DOMAIN out_files # {}

\* C9: at every point of an operation at most one file is open, and every
\* file it opened is closed when it returns.
C9_OneFileOpen ==
    /\ Cardinality(open_files) <= 1
    /\ (pc = "op_return" => open_files = {})

\* C9 as amended: the input file stays open for the whole operation and at
\* most one output file is open beside it, so at most two files are open; every
\* file is closed when the operation returns, with True, False or an error.
C9_FilesClosed ==
    /\ Cardinality({f \in open_files : f[1] = "in"}) <= 1
    /\ Cardinality({f \in open_files : f[1] = "out"}) <= 1
    /\ (open_files # {} => InFile \in open_files)
    /\ (pc = "op_return" => open_files = {})

\* An operation that failed while its output file was open has returned.
C9_Witness ==
    /\ pc = "op_return" /\ exc = "OSError" /\ result = "False"
    /\ \E n \in DOMAIN out_files : out_files[n] = <<>>
    /\ open_files = {}

\* C10: every page list main passes on as book_pages is an ascending,
\* duplicate-free sequence of positive integers.
C10_PositivePageSet ==
    book_pages # None =>
        /\ Ascending(book_pages[1])
        /\ \A i \in 1..Len(book_pages[1]) : book_pages[1][i] > 0

====
